---- MODULE Spec2Model ----
(***************************************************************************)
(* Model of app.py: the Depot ID and Shipping Point extractors, the two    *)
(* filename formatters, and the two splitter handlers (Call List and       *)
(* Group List) with their page loops and in-memory ZIP creation.           *)
(*                                                                         *)
(* A character is its Unicode code point and a str is a sequence of code   *)
(* points, so that the regular expressions are modelled character by       *)
(* character with Python's character classes.  A PdfWriter is the sequence *)
(* of 1-based page numbers added to it; a dict is the sequence of its      *)
(* items in insertion order.  Python's None is the empty sequence and a    *)
(* present value v is <<v>>.                                               *)
(***************************************************************************)
EXTENDS Integers, Sequences, FiniteSets, TLC

\* ---------------------------------------------------------------- bounds
MaxPages == 4
MaxKeyLen == 3
MaxFrags == 3

\* ------------------------------------------------------------- characters
None == <<>>
Some(v) == <<v>>

\* "UNKNOWN"
UNKNOWN == <<85, 78, 75, 78, 79, 87, 78>>
\* "Depot ID"
LabelDepot == <<68, 101, 112, 111, 116, 32, 73, 68>>
\* "Shipping Point"
LabelShipping == <<83, 104, 105, 112, 112, 105, 110, 103, 32, 80, 111, 105, 110, 116>>
\* "_CL.pdf"
SuffixCL == <<95, 67, 76, 46, 112, 100, 102>>
\* "_Group.pdf"
SuffixGroup == <<95, 71, 114, 111, 117, 112, 46, 112, 100, 102>>

\* ":", "V" and "v"
CharColon == 58
CharV == 86
CharLowerV == 118

InRanges(c, ranges) == \E r \in ranges : r[1] <= c /\ c <= r[2]

\* the code points above ASCII that \s matches in a str pattern: 0x85,
\* no-break space and the other Unicode white space
SpaceRanges == {<<133, 133>>, <<160, 160>>, <<5760, 5760>>, <<8192, 8202>>, <<8232, 8233>>,
                <<8239, 8239>>, <<8287, 8287>>, <<12288, 12288>>}
\* the code points above ASCII that \d matches in a str pattern (category Nd)
DecimalDigitRanges ==
    {<<1632, 1641>>, <<1776, 1785>>, <<1984, 1993>>, <<2406, 2415>>, <<2534, 2543>>,
     <<2662, 2671>>, <<2790, 2799>>, <<2918, 2927>>, <<3046, 3055>>, <<3174, 3183>>,
     <<3302, 3311>>, <<3430, 3439>>, <<3558, 3567>>, <<3664, 3673>>, <<3792, 3801>>,
     <<3872, 3881>>, <<4160, 4169>>, <<4240, 4249>>, <<6112, 6121>>, <<6160, 6169>>,
     <<6470, 6479>>, <<6608, 6617>>, <<6784, 6793>>, <<6800, 6809>>, <<6992, 7001>>,
     <<7088, 7097>>, <<7232, 7241>>, <<7248, 7257>>, <<42528, 42537>>,
     <<43216, 43225>>, <<43264, 43273>>, <<43472, 43481>>, <<43504, 43513>>,
     <<43600, 43609>>, <<44016, 44025>>, <<65296, 65305>>, <<66720, 66729>>,
     <<68912, 68921>>, <<69734, 69743>>, <<69872, 69881>>, <<69942, 69951>>,
     <<70096, 70105>>, <<70384, 70393>>, <<70736, 70745>>, <<70864, 70873>>,
     <<71248, 71257>>, <<71360, 71369>>, <<71472, 71481>>, <<71904, 71913>>,
     <<72016, 72025>>, <<72784, 72793>>, <<73040, 73049>>, <<73120, 73129>>,
     <<92768, 92777>>, <<92864, 92873>>, <<93008, 93017>>, <<120782, 120831>>,
     <<123200, 123209>>, <<123632, 123641>>, <<125264, 125273>>, <<130032, 130041>>}
\* the code points above ASCII for which str.isdigit() holds: the decimal
\* digits and the superscript, subscript, circled and similar digits
IsdigitRanges ==
    {<<178, 179>>, <<185, 185>>, <<1632, 1641>>, <<1776, 1785>>, <<1984, 1993>>,
     <<2406, 2415>>, <<2534, 2543>>, <<2662, 2671>>, <<2790, 2799>>, <<2918, 2927>>,
     <<3046, 3055>>, <<3174, 3183>>, <<3302, 3311>>, <<3430, 3439>>, <<3558, 3567>>,
     <<3664, 3673>>, <<3792, 3801>>, <<3872, 3881>>, <<4160, 4169>>, <<4240, 4249>>,
     <<4969, 4977>>, <<6112, 6121>>, <<6160, 6169>>, <<6470, 6479>>, <<6608, 6618>>,
     <<6784, 6793>>, <<6800, 6809>>, <<6992, 7001>>, <<7088, 7097>>, <<7232, 7241>>,
     <<7248, 7257>>, <<8304, 8304>>, <<8308, 8313>>, <<8320, 8329>>, <<9312, 9320>>,
     <<9332, 9340>>, <<9352, 9360>>, <<9450, 9450>>, <<9461, 9469>>, <<9471, 9471>>,
     <<10102, 10110>>, <<10112, 10120>>, <<10122, 10130>>, <<42528, 42537>>,
     <<43216, 43225>>, <<43264, 43273>>, <<43472, 43481>>, <<43504, 43513>>,
     <<43600, 43609>>, <<44016, 44025>>, <<65296, 65305>>, <<66720, 66729>>,
     <<68160, 68163>>, <<68912, 68921>>, <<69216, 69224>>, <<69714, 69722>>,
     <<69734, 69743>>, <<69872, 69881>>, <<69942, 69951>>, <<70096, 70105>>,
     <<70384, 70393>>, <<70736, 70745>>, <<70864, 70873>>, <<71248, 71257>>,
     <<71360, 71369>>, <<71472, 71481>>, <<71904, 71913>>, <<72016, 72025>>,
     <<72784, 72793>>, <<73040, 73049>>, <<73120, 73129>>, <<92768, 92777>>,
     <<92864, 92873>>, <<93008, 93017>>, <<120782, 120831>>, <<123200, 123209>>,
     <<123632, 123641>>, <<125264, 125273>>, <<127232, 127242>>, <<130032, 130041>>}

\* [0-9]
IsAsciiDigit(c) == 48 <= c /\ c <= 57
\* \d
IsDigit(c) == IsAsciiDigit(c) \/ (c > 127 /\ InRanges(c, DecimalDigitRanges))
\* \s: \t \n \v \f \r, 0x1c-0x1f and space, or white space above ASCII
IsAsciiSpace(c) == (9 <= c /\ c <= 13) \/ (28 <= c /\ c <= 32)
IsSpace(c) == IsAsciiSpace(c) \/ (c > 127 /\ InRanges(c, SpaceRanges))
\* [\r\n]: carriage return (13), line feed (10)
IsLineBreak(c) == c \in {13, 10}

IsUpper(c) == 65 <= c /\ c <= 90
IsLower(c) == 97 <= c /\ c <= 122
\* str.lower() and str.upper() on one ASCII letter
ToLower(c) == IF IsUpper(c) THEN c + 32 ELSE c
ToUpper(c) == IF IsLower(c) THEN c - 32 ELSE c

\* the characters an ASCII pattern character p matches under re.IGNORECASE:
\* both cases of a letter, and also U+0130 and U+0131 for i, U+017F for s,
\* U+212A for k
IsCaseVariant(a, p) ==
    \/ ToLower(a) = ToLower(p)
    \/ (ToLower(p) = 105 /\ (a = 304 \/ a = 305))
    \/ (ToLower(p) = 115 /\ a = 383)
    \/ (ToLower(p) = 107 /\ a = 8490)

\* text character a against pattern character b, under re.IGNORECASE or not
EqChar(ignorecase, a, b) == IF ignorecase THEN IsCaseVariant(a, b) ELSE a = b

\* a literal of the pattern matches text at position pos
MatchLiteral(text, pos, lit, ignorecase) ==
    /\ pos >= 1
    /\ pos + Len(lit) - 1 <= Len(text)
    /\ \A k \in 1..Len(lit) : EqChar(ignorecase, text[pos + k - 1], lit[k])

\* text[from .. to-1] consists of characters of one class
AllSpace(text, from, to) == \A r \in from..(to - 1) : IsSpace(text[r])
AllLineBreak(text, from, to) == \A r \in from..(to - 1) : IsLineBreak(text[r])
AllNonDigit(text, from, to) == \A r \in from..(to - 1) : ~IsDigit(text[r])
AllDigit(text, from, to) ==
    /\ to - 1 <= Len(text)
    /\ \A r \in from..(to - 1) : IsDigit(text[r])
AllAsciiDigit(text, from, to) ==
    /\ to - 1 <= Len(text)
    /\ \A r \in from..(to - 1) : IsAsciiDigit(text[r])

Min(S) == CHOOSE x \in S : \A y \in S : x <= y

\* -------------------------------------------------------------- extractors
\* (\d{4})\s*[\r\n]+\s*Depot ID  matches with the group starting at i
PrimaryAt(text, i, ignorecase) ==
    /\ AllDigit(text, i, i + 4)
    /\ \E p1 \in (i + 4)..(Len(text) + 1) :
       \E p2 \in (p1 + 1)..(Len(text) + 1) :
       \E p3 \in p2..(Len(text) + 1) :
          /\ AllSpace(text, i + 4, p1)
          /\ AllLineBreak(text, p1, p2)
          /\ AllSpace(text, p2, p3)
          /\ MatchLiteral(text, p3, LabelDepot, ignorecase)

\* Depot ID[^\d]+(\d{4})  matches with the label at j and the group at k
FallbackAt(text, j, k, ignorecase) ==
    /\ MatchLiteral(text, j, LabelDepot, ignorecase)
    /\ k >= j + Len(LabelDepot) + 1
    /\ AllNonDigit(text, j + Len(LabelDepot), k)
    /\ AllDigit(text, k, k + 4)

\* Shipping Point\s*:\s*([0-9]{3}V)  matches with the label at j, the group at k
ShippingAt(text, j, k) ==
    /\ MatchLiteral(text, j, LabelShipping, FALSE)
    /\ \E c \in (j + Len(LabelShipping))..(k - 1) :
          /\ AllSpace(text, j + Len(LabelShipping), c)
          /\ text[c] = CharColon
          /\ AllSpace(text, c + 1, k)
    /\ AllAsciiDigit(text, k, k + 3)
    /\ k + 3 <= Len(text)
    /\ text[k + 3] = CharV

\* re.search: the leftmost start at which the pattern matches; None if none
SearchPrimary(text, ignorecase) ==
    LET starts == {i \in 1..Len(text) : PrimaryAt(text, i, ignorecase)}
    IN  IF starts = {} THEN None
        ELSE Some(SubSeq(text, Min(starts), Min(starts) + 3))

SearchFallback(text, ignorecase) ==
    LET starts == {j \in 1..Len(text) :
                     /\ MatchLiteral(text, j, LabelDepot, ignorecase)
                     /\ \E k \in 1..Len(text) : FallbackAt(text, j, k, ignorecase)}
    IN  IF starts = {} THEN None
        ELSE LET j == Min(starts)
                 k == CHOOSE kk \in 1..Len(text) : FallbackAt(text, j, kk, ignorecase)
             IN  Some(SubSeq(text, k, k + 3))

SearchShipping(text) ==
    LET starts == {j \in 1..Len(text) :
                     /\ MatchLiteral(text, j, LabelShipping, FALSE)
                     /\ \E k \in 1..Len(text) : ShippingAt(text, j, k)}
    IN  IF starts = {} THEN None
        ELSE LET j == Min(starts)
                 k == CHOOSE kk \in 1..Len(text) : ShippingAt(text, j, kk)
             IN  Some(SubSeq(text, k, k + 3))

\* a variant of the Depot extractor whose patterns lack re.IGNORECASE
extract_depot_id_case_sensitive(text) ==
    IF text = <<>> THEN UNKNOWN
    ELSE LET match == SearchPrimary(text, FALSE)
             match2 == SearchFallback(text, FALSE)
         IN  IF match # None THEN match[1]
             ELSE IF match2 # None THEN match2[1]
             ELSE UNKNOWN

extract_depot_id_from_text(text) ==
    IF text = <<>> THEN UNKNOWN
    ELSE LET match == SearchPrimary(text, TRUE)
             match2 == SearchFallback(text, TRUE)
         IN  IF match # None THEN match[1]
             ELSE IF match2 # None THEN match2[1]
             ELSE UNKNOWN

\* page.extract_text() or "": a page is modelled by its extracted text
extract_depot_id(page) == extract_depot_id_from_text(page)

extract_shipping_point_from_text(text) ==
    IF text = <<>> THEN UNKNOWN
    ELSE LET match == SearchShipping(text)
         IN  IF match # None THEN match[1] ELSE UNKNOWN

extract_shipping_point(page) == extract_shipping_point_from_text(page)

\* -------------------------------------------------------------- formatters
\* str.isdigit(): not empty and every character is a digit
IsDigitChar(c) == IsAsciiDigit(c) \/ (c > 127 /\ InRanges(c, IsdigitRanges))
isdigit(s) == Len(s) > 0 /\ \A k \in 1..Len(s) : IsDigitChar(s[k])

\* a variant of the Depot formatter without the length check
depot_id_to_filename_no_length_check(depot_id) ==
    LET base == IF depot_id = UNKNOWN \/ ~isdigit(depot_id)
                THEN depot_id
                ELSE SubSeq(depot_id, 2, Len(depot_id)) \o <<CharV>>
    IN  base \o SuffixCL

depot_id_to_filename(depot_id) ==
    LET base == IF depot_id = UNKNOWN \/ ~isdigit(depot_id) \/ Len(depot_id) < 2
                THEN depot_id
                ELSE SubSeq(depot_id, 2, Len(depot_id)) \o <<CharV>>
    IN  base \o SuffixCL

shipping_point_to_filename(sp) ==
    LET base == IF sp = UNKNOWN THEN UNKNOWN ELSE sp
    IN  base \o SuffixGroup

\* ------------------------------------------------------------------ state
VARIABLES
    tool,               \* the sidebar selection `page`
    pages,              \* reader.pages: the extracted text of each page
    pc,                 \* position in the button handler
    page_num,           \* page_num of the last iteration entered, 0 before the loop
    depot_writers,      \* dict depot id -> PdfWriter, in insertion order
    last_depot_id,      \* None or the last resolved depot id
    unknown_attached,   \* [page, assigned_to] of pages attached to the previous depot
    unknown_unassigned, \* page numbers grouped under UNKNOWN
    sp_writers,         \* dict shipping point -> PdfWriter, in insertion order
    ignored_pages,      \* page numbers the Group List loop skipped
    zip_file,           \* None, or the entries written to zip_buffer so far
    download,           \* None, or the archive handed to st.download_button
    message,            \* how the handler ended: "success" (line 205 / 291),
                        \* "nothing" (line 268) or "error" (the except clause)
    e,                  \* None, or the call that raised the caught exception
    fmt_key,            \* argument of a formatter call
    fmt_out,            \* None, or the formatter's result
    ext_base,           \* a page text
    ext_text,           \* the text derived from ext_base that is extracted from
    ext_change,         \* how ext_text was derived from ext_base
    ext_depot,          \* None, or the Depot extractor's result on ext_text
    ext_sp              \* None, or the Shipping Point extractor's result on ext_text

runVars == <<tool, pages, pc, page_num, depot_writers, last_depot_id,
             unknown_attached, unknown_unassigned, sp_writers, ignored_pages,
             zip_file, download, message, e>>
fmtVars == <<fmt_key, fmt_out>>
extVars == <<ext_base, ext_text, ext_change, ext_depot, ext_sp>>
vars == <<runVars, fmtVars, extVars>>

CallList == "Call List Splitter"
GroupList == "Group List Splitter"

\* ------------------------------------------------------------ input pages
\* "1:342104\nDepot ID"
TextPrimary2104 == <<49, 58, 51, 52, 50, 49, 48, 52, 10, 68, 101, 112, 111, 116, 32, 73, 68>>
\* "1:343104" no-break space "\r\n depot" dotless-i "d"
TextPrimary3104 == <<49, 58, 51, 52, 51, 49, 48, 52, 160, 13, 10, 32, 100, 101, 112, 111, 116, 32, 305, 100>>
\* "Depot ID : 2200"
TextFallback2200 == <<68, 101, 112, 111, 116, 32, 73, 68, 32, 58, 32, 50, 50, 48, 48>>
\* "Depot ID " Arabic-Indic digit three " 2200"
TextDigitInRun == <<68, 101, 112, 111, 116, 32, 73, 68, 32, 1635, 32, 50, 50, 48, 48>>
\* "Shipping Point : 123V Messer"
TextSP123 == <<83, 104, 105, 112, 112, 105, 110, 103, 32, 80, 111, 105, 110, 116, 32, 58, 32, 49, 50, 51, 86, 32, 77, 101, 115, 115, 101, 114>>
\* "Shipping Point" vertical tab ":" no-break space "140V"
TextSP140 == <<83, 104, 105, 112, 112, 105, 110, 103, 32, 80, 111, 105, 110, 116, 11, 58, 160, 49, 52, 48, 86>>
\* "Shipping Point : 12V"
TextSPShort == <<83, 104, 105, 112, 112, 105, 110, 103, 32, 80, 111, 105, 110, 116, 32, 58, 32, 49, 50, 86>>
\* "shipping point : 123V"
TextSPLower == <<115, 104, 105, 112, 112, 105, 110, 103, 32, 112, 111, 105, 110, 116, 32, 58, 32, 49, 50, 51, 86>>

CallListTexts == {TextPrimary2104, TextPrimary3104, TextFallback2200, TextDigitInRun, <<>>}
GroupListTexts == {TextSP123, TextSP140, TextSPShort, TextSPLower, <<>>}

SeqsUpTo(S, n) == UNION {[1..m -> S] : m \in 0..n}

\* ---------------------------------------------------------- dict helpers
Keys(writers) == {writers[i].key : i \in 1..Len(writers)}
IndexOf(writers, key) == CHOOSE i \in 1..Len(writers) : writers[i].key = key

\* if key not in writers: writers[key] = PdfWriter()
EnsureWriter(writers, key) ==
    IF key \notin Keys(writers)
    THEN Append(writers, [key |-> key, pages |-> <<>>])
    ELSE writers

\* writers[key] = PdfWriter() at every page, also when the key is present
AddPageFreshWriter(writers, key, n) ==
    LET ensured == EnsureWriter(writers, key)
    IN  [ensured EXCEPT ![IndexOf(ensured, key)].pages = <<n>>]

\* writer.insert_page(page, 0) in place of writer.add_page(page)
AddPageInFront(writers, key, n) ==
    LET ensured == EnsureWriter(writers, key)
    IN  [ensured EXCEPT ![IndexOf(ensured, key)].pages = <<n>> \o @]

\* the writer is created if the key is new, then writers[key].add_page(page)
AddPage(writers, key, n) ==
    LET ensured == EnsureWriter(writers, key)
    IN  [ensured EXCEPT ![IndexOf(ensured, key)].pages = Append(@, n)]

\* ------------------------------------------------- Call List UNKNOWN policy
\* an UNKNOWN page is never attached to the previous depot
EffectiveDepotIdNoAttach(depot_id_raw, last) ==
    IF depot_id_raw = UNKNOWN THEN UNKNOWN ELSE depot_id_raw

EffectiveDepotId(depot_id_raw, last) ==
    IF depot_id_raw = UNKNOWN
    THEN IF last # None THEN last[1] ELSE UNKNOWN
    ELSE depot_id_raw

\* last_depot_id = effective_depot_id after the if/else, for every page
NewLastDepotIdAlways(depot_id_raw, last) ==
    Some(EffectiveDepotId(depot_id_raw, last))

NewLastDepotId(depot_id_raw, last) ==
    IF depot_id_raw = UNKNOWN THEN last ELSE Some(depot_id_raw)

\* unknown_attached.append({"page": ..., "assigned_to": last_depot_id})
NewUnknownAttached(attached, depot_id_raw, last, n) ==
    IF depot_id_raw = UNKNOWN /\ last # None
    THEN Append(attached, [page |-> n, assigned_to |-> last[1]])
    ELSE attached

\* unknown_unassigned.append(page_num)
NewUnknownUnassigned(unassigned, depot_id_raw, last, n) ==
    IF depot_id_raw = UNKNOWN /\ last = None
    THEN Append(unassigned, n)
    ELSE unassigned

\* ZipFile.writestr(filename, bytes of writer): appends an entry, also when
\* an entry of that name is already in the archive
WriteStr(zf, filename, writer) ==
    Append(zf, [filename |-> filename, content |-> writer.pages])

\* `not sp_writers` that never holds
NoWritersNever(writers) == FALSE

NoWriters(writers) == writers = <<>>

\* ---------------------------------------------------------------- faults
\* The whole handler is inside `try`, so an exception raised by any call ends
\* it in `except Exception as e: st.error(...)`.  e records which call raised:
\* PdfReader / reader.pages, page.extract_text, the constructor PdfWriter()
\* of a new group, PdfWriter.add_page,
\* writer.write / zip_file.writestr, st.success / st.download_button after
\* the archive is complete, or one of the st.write / st.json / st.warning /
\* st.table / st.info / st.error calls that report on the page loop.
RaisedInRead == "PdfReader"
RaisedInReport == "st.write"
RaisedInExtract == "extract_text"
RaisedInNewWriter == "PdfWriter"
RaisedInAddPage == "add_page"
RaisedInWrite == "write"
RaisedInDownload == "download_button"

\* ------------------------------------------------------ Call List Splitter
\* PdfReader(uploaded_file) or len(reader.pages) raises
CallListReaderError ==
    /\ tool = CallList
    /\ pc = "loop"
    /\ page_num = 0
    /\ e' = Some(RaisedInRead)
    /\ message' = "error"
    /\ pc' = "done"
    /\ UNCHANGED <<tool, pages, page_num, depot_writers, last_depot_id,
                   unknown_attached, unknown_unassigned, sp_writers, ignored_pages,
                   zip_file, download, fmtVars, extVars>>

\* one iteration of `for page_index, page in enumerate(reader.pages)`
CallListPage ==
    /\ tool = CallList
    /\ pc = "loop"
    /\ page_num < Len(pages)
    /\ LET next_num == page_num + 1
           depot_id_raw == extract_depot_id(pages[next_num])
           effective_depot_id == EffectiveDepotId(depot_id_raw, last_depot_id)
       IN  /\ unknown_attached' =
                 NewUnknownAttached(unknown_attached, depot_id_raw, last_depot_id, next_num)
           /\ unknown_unassigned' =
                 NewUnknownUnassigned(unknown_unassigned, depot_id_raw, last_depot_id,
                                      next_num)
           /\ last_depot_id' = NewLastDepotId(depot_id_raw, last_depot_id)
           /\ depot_writers' = AddPage(depot_writers, effective_depot_id, next_num)
           /\ page_num' = next_num
    /\ UNCHANGED <<tool, pages, pc, sp_writers, ignored_pages, zip_file, download,
                   message, e, fmtVars, extVars>>

\* page.extract_text() raises in an iteration: nothing of the page is recorded
CallListExtractError ==
    /\ tool = CallList
    /\ pc = "loop"
    /\ page_num < Len(pages)
    /\ page_num' = page_num + 1
    /\ e' = Some(RaisedInExtract)
    /\ message' = "error"
    /\ pc' = "done"
    /\ UNCHANGED <<tool, pages, depot_writers, last_depot_id, unknown_attached,
                   unknown_unassigned, sp_writers, ignored_pages, zip_file, download,
                   fmtVars, extVars>>

\* PdfWriter() raises on a page that opens a new group: the diagnostics and
\* last_depot_id are updated and the dict has no entry for the key
CallListNewWriterError ==
    /\ tool = CallList
    /\ pc = "loop"
    /\ page_num < Len(pages)
    /\ LET next_num == page_num + 1
           depot_id_raw == extract_depot_id(pages[next_num])
           effective_depot_id == EffectiveDepotId(depot_id_raw, last_depot_id)
       IN  /\ effective_depot_id \notin Keys(depot_writers)
           /\ unknown_attached' =
                 NewUnknownAttached(unknown_attached, depot_id_raw, last_depot_id, next_num)
           /\ unknown_unassigned' =
                 NewUnknownUnassigned(unknown_unassigned, depot_id_raw, last_depot_id,
                                      next_num)
           /\ last_depot_id' = NewLastDepotId(depot_id_raw, last_depot_id)
           /\ page_num' = next_num
    /\ e' = Some(RaisedInNewWriter)
    /\ message' = "error"
    /\ pc' = "done"
    /\ UNCHANGED <<tool, pages, depot_writers, sp_writers, ignored_pages, zip_file,
                   download, fmtVars, extVars>>

\* add_page raises in an iteration: the diagnostics and last_depot_id are
\* updated and the writer exists, but the page is not in it
CallListAddPageError ==
    /\ tool = CallList
    /\ pc = "loop"
    /\ page_num < Len(pages)
    /\ LET next_num == page_num + 1
           depot_id_raw == extract_depot_id(pages[next_num])
           effective_depot_id == EffectiveDepotId(depot_id_raw, last_depot_id)
       IN  /\ unknown_attached' =
                 NewUnknownAttached(unknown_attached, depot_id_raw, last_depot_id, next_num)
           /\ unknown_unassigned' =
                 NewUnknownUnassigned(unknown_unassigned, depot_id_raw, last_depot_id,
                                      next_num)
           /\ last_depot_id' = NewLastDepotId(depot_id_raw, last_depot_id)
           /\ depot_writers' = EnsureWriter(depot_writers, effective_depot_id)
           /\ page_num' = next_num
    /\ e' = Some(RaisedInAddPage)
    /\ message' = "error"
    /\ pc' = "done"
    /\ UNCHANGED <<tool, pages, sp_writers, ignored_pages, zip_file, download,
                   fmtVars, extVars>>

\* a reporting call raises before the archive is opened (lines 143, 173, 179-191): the
\* state is as the completed iterations left it
CallListReportError ==
    /\ tool = CallList
    /\ pc = "loop"
    /\ e' = Some(RaisedInReport)
    /\ message' = "error"
    /\ pc' = "done"
    /\ UNCHANGED <<tool, pages, page_num, depot_writers, last_depot_id,
                   unknown_attached, unknown_unassigned, sp_writers, ignored_pages,
                   zip_file, download, fmtVars, extVars>>

\* the loop is over: the groups and diagnostics are shown, zip_buffer is opened
CallListReport ==
    /\ tool = CallList
    /\ pc = "loop"
    /\ page_num = Len(pages)
    /\ zip_file' = Some(<<>>)
    /\ pc' = "zip"
    /\ UNCHANGED <<tool, pages, page_num, depot_writers, last_depot_id,
                   unknown_attached, unknown_unassigned, sp_writers, ignored_pages,
                   download, message, e, fmtVars, extVars>>

\* one iteration of `for depot_id, writer in depot_writers.items()`
CallListZipWrite ==
    /\ tool = CallList
    /\ pc = "zip"
    /\ Len(zip_file[1]) < Len(depot_writers)
    /\ LET item == depot_writers[Len(zip_file[1]) + 1]
           filename == depot_id_to_filename(item.key)
       IN  zip_file' = Some(WriteStr(zip_file[1], filename, item))
    /\ UNCHANGED <<tool, pages, pc, page_num, depot_writers, last_depot_id,
                   unknown_attached, unknown_unassigned, sp_writers, ignored_pages,
                   download, message, e, fmtVars, extVars>>

\* the except handler offers what was written before the failure
CallListZipErrorPartial ==
    /\ tool = CallList
    /\ pc = "zip"
    /\ Len(zip_file[1]) < Len(depot_writers)
    /\ download' = Some(zip_file[1])
    /\ e' = Some(RaisedInWrite)
    /\ message' = "error"
    /\ pc' = "done"
    /\ UNCHANGED <<tool, pages, page_num, depot_writers, last_depot_id,
                   unknown_attached, unknown_unassigned, sp_writers, ignored_pages,
                   zip_file, fmtVars, extVars>>

\* writer.write or zip_file.writestr raises: `except Exception as e: st.error`
CallListZipError ==
    /\ tool = CallList
    /\ pc = "zip"
    /\ Len(zip_file[1]) < Len(depot_writers)
    /\ e' = Some(RaisedInWrite)
    /\ message' = "error"
    /\ pc' = "done"
    /\ UNCHANGED <<tool, pages, page_num, depot_writers, last_depot_id,
                   unknown_attached, unknown_unassigned, sp_writers, ignored_pages,
                   zip_file, download, fmtVars, extVars>>

\* every group is written: st.success and st.download_button(data=zip_buffer)
CallListDownload ==
    /\ tool = CallList
    /\ pc = "zip"
    /\ Len(zip_file[1]) = Len(depot_writers)
    /\ download' = Some(zip_file[1])
    /\ message' = "success"
    /\ pc' = "done"
    /\ UNCHANGED <<tool, pages, page_num, depot_writers, last_depot_id,
                   unknown_attached, unknown_unassigned, sp_writers, ignored_pages,
                   zip_file, e, fmtVars, extVars>>

\* every group is written and then st.success or st.download_button raises
CallListDownloadError ==
    /\ tool = CallList
    /\ pc = "zip"
    /\ Len(zip_file[1]) = Len(depot_writers)
    /\ e' = Some(RaisedInDownload)
    /\ message' = "error"
    /\ pc' = "done"
    /\ UNCHANGED <<tool, pages, page_num, depot_writers, last_depot_id,
                   unknown_attached, unknown_unassigned, sp_writers, ignored_pages,
                   zip_file, download, fmtVars, extVars>>

\* ----------------------------------------------------- Group List Splitter
\* PdfReader(group_file) or len(reader.pages) raises
GroupListReaderError ==
    /\ tool = GroupList
    /\ pc = "loop"
    /\ page_num = 0
    /\ e' = Some(RaisedInRead)
    /\ message' = "error"
    /\ pc' = "done"
    /\ UNCHANGED <<tool, pages, page_num, depot_writers, last_depot_id,
                   unknown_attached, unknown_unassigned, sp_writers, ignored_pages,
                   zip_file, download, fmtVars, extVars>>

\* an unmatched page is attached to the group of the previous matched page
GroupListPageAttach ==
    /\ tool = GroupList
    /\ pc = "loop"
    /\ page_num < Len(pages)
    /\ LET next_num == page_num + 1
           sp == extract_shipping_point(pages[next_num])
       IN  /\ IF sp = UNKNOWN
              THEN /\ ignored_pages' = Append(ignored_pages, next_num)
                   /\ sp_writers' =
                         IF sp_writers = <<>> THEN sp_writers
                         ELSE AddPage(sp_writers, sp_writers[Len(sp_writers)].key, next_num)
              ELSE /\ sp_writers' = AddPage(sp_writers, sp, next_num)
                   /\ UNCHANGED ignored_pages
           /\ page_num' = next_num
    /\ UNCHANGED <<tool, pages, pc, depot_writers, last_depot_id, unknown_attached,
                   unknown_unassigned, zip_file, download, message, e, fmtVars, extVars>>

\* one iteration of `for page_index, page in enumerate(reader.pages)`
GroupListPage ==
    /\ tool = GroupList
    /\ pc = "loop"
    /\ page_num < Len(pages)
    /\ LET next_num == page_num + 1
           sp == extract_shipping_point(pages[next_num])
       IN  /\ IF sp = UNKNOWN
              THEN /\ ignored_pages' = Append(ignored_pages, next_num)
                   /\ UNCHANGED sp_writers
              ELSE /\ sp_writers' = AddPage(sp_writers, sp, next_num)
                   /\ UNCHANGED ignored_pages
           /\ page_num' = next_num
    /\ UNCHANGED <<tool, pages, pc, depot_writers, last_depot_id, unknown_attached,
                   unknown_unassigned, zip_file, download, message, e, fmtVars, extVars>>

\* page.extract_text() raises in an iteration: nothing of the page is recorded
GroupListExtractError ==
    /\ tool = GroupList
    /\ pc = "loop"
    /\ page_num < Len(pages)
    /\ page_num' = page_num + 1
    /\ e' = Some(RaisedInExtract)
    /\ message' = "error"
    /\ pc' = "done"
    /\ UNCHANGED <<tool, pages, depot_writers, last_depot_id, unknown_attached,
                   unknown_unassigned, sp_writers, ignored_pages, zip_file, download,
                   fmtVars, extVars>>

\* PdfWriter() raises on a page that opens a new group: the dict has no entry
\* for the shipping point
GroupListNewWriterError ==
    /\ tool = GroupList
    /\ pc = "loop"
    /\ page_num < Len(pages)
    /\ LET next_num == page_num + 1
           sp == extract_shipping_point(pages[next_num])
       IN  /\ sp # UNKNOWN
           /\ sp \notin Keys(sp_writers)
           /\ page_num' = next_num
    /\ e' = Some(RaisedInNewWriter)
    /\ message' = "error"
    /\ pc' = "done"
    /\ UNCHANGED <<tool, pages, depot_writers, last_depot_id, unknown_attached,
                   unknown_unassigned, sp_writers, ignored_pages, zip_file, download,
                   fmtVars, extVars>>

\* add_page raises on a page with a shipping point: the writer exists, but the
\* page is not in it
GroupListAddPageError ==
    /\ tool = GroupList
    /\ pc = "loop"
    /\ page_num < Len(pages)
    /\ LET next_num == page_num + 1
           sp == extract_shipping_point(pages[next_num])
       IN  /\ sp # UNKNOWN
           /\ sp_writers' = EnsureWriter(sp_writers, sp)
           /\ page_num' = next_num
    /\ e' = Some(RaisedInAddPage)
    /\ message' = "error"
    /\ pc' = "done"
    /\ UNCHANGED <<tool, pages, depot_writers, last_depot_id, unknown_attached,
                   unknown_unassigned, ignored_pages, zip_file, download,
                   fmtVars, extVars>>

\* a reporting call raises before the archive is opened (lines 246, 258, 265, 268-277): the
\* state is as the completed iterations left it
GroupListReportError ==
    /\ tool = GroupList
    /\ pc = "loop"
    /\ e' = Some(RaisedInReport)
    /\ message' = "error"
    /\ pc' = "done"
    /\ UNCHANGED <<tool, pages, page_num, depot_writers, last_depot_id,
                   unknown_attached, unknown_unassigned, sp_writers, ignored_pages,
                   zip_file, download, fmtVars, extVars>>

\* `if not sp_writers: st.error("... Nothing to split.")`
GroupListNothing ==
    /\ tool = GroupList
    /\ pc = "loop"
    /\ page_num = Len(pages)
    /\ NoWriters(sp_writers)
    /\ message' = "nothing"
    /\ pc' = "done"
    /\ UNCHANGED <<tool, pages, page_num, depot_writers, last_depot_id,
                   unknown_attached, unknown_unassigned, sp_writers, ignored_pages,
                   zip_file, download, e, fmtVars, extVars>>

\* the else branch: the shipping points are shown, zip_buffer is opened
GroupListReport ==
    /\ tool = GroupList
    /\ pc = "loop"
    /\ page_num = Len(pages)
    /\ ~NoWriters(sp_writers)
    /\ zip_file' = Some(<<>>)
    /\ pc' = "zip"
    /\ UNCHANGED <<tool, pages, page_num, depot_writers, last_depot_id,
                   unknown_attached, unknown_unassigned, sp_writers, ignored_pages,
                   download, message, e, fmtVars, extVars>>

\* one iteration of `for sp, writer in sp_writers.items()`
GroupListZipWrite ==
    /\ tool = GroupList
    /\ pc = "zip"
    /\ Len(zip_file[1]) < Len(sp_writers)
    /\ LET item == sp_writers[Len(zip_file[1]) + 1]
           filename == shipping_point_to_filename(item.key)
       IN  zip_file' = Some(WriteStr(zip_file[1], filename, item))
    /\ UNCHANGED <<tool, pages, pc, page_num, depot_writers, last_depot_id,
                   unknown_attached, unknown_unassigned, sp_writers, ignored_pages,
                   download, message, e, fmtVars, extVars>>

\* writer.write or zip_file.writestr raises: `except Exception as e: st.error`
GroupListZipError ==
    /\ tool = GroupList
    /\ pc = "zip"
    /\ Len(zip_file[1]) < Len(sp_writers)
    /\ e' = Some(RaisedInWrite)
    /\ message' = "error"
    /\ pc' = "done"
    /\ UNCHANGED <<tool, pages, page_num, depot_writers, last_depot_id,
                   unknown_attached, unknown_unassigned, sp_writers, ignored_pages,
                   zip_file, download, fmtVars, extVars>>

\* every group is written: st.success and st.download_button(data=zip_buffer)
GroupListDownload ==
    /\ tool = GroupList
    /\ pc = "zip"
    /\ Len(zip_file[1]) = Len(sp_writers)
    /\ download' = Some(zip_file[1])
    /\ message' = "success"
    /\ pc' = "done"
    /\ UNCHANGED <<tool, pages, page_num, depot_writers, last_depot_id,
                   unknown_attached, unknown_unassigned, sp_writers, ignored_pages,
                   zip_file, e, fmtVars, extVars>>

\* every group is written and then st.success or st.download_button raises
GroupListDownloadError ==
    /\ tool = GroupList
    /\ pc = "zip"
    /\ Len(zip_file[1]) = Len(sp_writers)
    /\ e' = Some(RaisedInDownload)
    /\ message' = "error"
    /\ pc' = "done"
    /\ UNCHANGED <<tool, pages, page_num, depot_writers, last_depot_id,
                   unknown_attached, unknown_unassigned, sp_writers, ignored_pages,
                   zip_file, download, fmtVars, extVars>>

\* ------------------------------------------------------------ specification
\* no formatter or extractor call outside a handler is in progress
FmtIdle == fmt_key = <<>> /\ fmt_out = None
ExtIdle == /\ ext_base = <<>> /\ ext_text = <<>> /\ ext_change = "none"
           /\ ext_depot = None /\ ext_sp = None

\* the handler's locals when the button is pressed
HandlerStart ==
    /\ page_num = 0
    /\ depot_writers = <<>>
    /\ last_depot_id = None
    /\ unknown_attached = <<>>
    /\ unknown_unassigned = <<>>
    /\ sp_writers = <<>>
    /\ ignored_pages = <<>>
    /\ zip_file = None
    /\ download = None
    /\ message = "none"
    /\ e = None

\* a button press with an uploaded document of at most MaxPages pages
Init ==
    /\ tool \in {CallList, GroupList}
    /\ pages \in SeqsUpTo(IF tool = CallList THEN CallListTexts ELSE GroupListTexts,
                          MaxPages)
    /\ pc = "loop"
    /\ HandlerStart
    /\ FmtIdle
    /\ ExtIdle

Next ==
    \/ CallListReaderError
    \/ CallListPage
    \/ CallListExtractError
    \/ CallListNewWriterError
    \/ CallListAddPageError
    \/ CallListReportError
    \/ CallListReport
    \/ CallListZipWrite
    \/ CallListZipError
    \/ CallListDownload
    \/ CallListDownloadError
    \/ GroupListReaderError
    \/ GroupListPage
    \/ GroupListExtractError
    \/ GroupListNewWriterError
    \/ GroupListAddPageError
    \/ GroupListReportError
    \/ GroupListNothing
    \/ GroupListReport
    \/ GroupListZipWrite
    \/ GroupListZipError
    \/ GroupListDownload
    \/ GroupListDownloadError

Spec == Init /\ [][Next]_vars

\* ------------------------------------------------ vocabulary of the claims
\* "2104"
Key2104 == <<50, 49, 48, 52>>
\* "3104"
Key3104 == <<51, 49, 48, 52>>
\* "2200"
Key2200 == <<50, 50, 48, 48>>
\* "123V"
Key123V == <<49, 50, 51, 86>>
\* "140V"
Key140V == <<49, 52, 48, 86>>

\* the dict of the selected tool
Writers == IF tool = CallList THEN depot_writers ELSE sp_writers
Formatter(key) ==
    IF tool = CallList THEN depot_id_to_filename(key) ELSE shipping_point_to_filename(key)

\* the places (group, position) at which page p occurs
Places(writers, p) ==
    {pl \in (1..Len(writers)) \X (1..MaxPages + 1) :
        /\ pl[2] <= Len(writers[pl[1]].pages)
        /\ writers[pl[1]].pages[pl[2]] = p}
TotalPages(writers) ==
    Cardinality({pl \in (1..Len(writers)) \X (1..MaxPages + 1) :
                    pl[2] <= Len(writers[pl[1]].pages)})
InGroup(writers, p, key) ==
    \E i \in 1..Len(writers) :
        /\ writers[i].key = key
        /\ \E k \in 1..Len(writers[i].pages) : writers[i].pages[k] = p
Increasing(seq) == \A a, b \in 1..Len(seq) : a < b => seq[a] < seq[b]
Max(S) == CHOOSE x \in S : \A y \in S : y <= x

\* the run was aborted before its archive was opened: the document could not
\* be read, a page's text extraction, writer creation or append raised, or a
\* report raised
AbortedInLoop ==
    e # None /\ e[1] \in {RaisedInRead, RaisedInExtract, RaisedInNewWriter,
                          RaisedInAddPage, RaisedInReport}

\* what the two extractors return on each page text a document can hold
DepotIdOf == [page \in CallListTexts |-> extract_depot_id(page)]
ShippingPointOf == [page \in GroupListTexts |-> extract_shipping_point(page)]
\* what they return on the pages of the document
DepotRaws == [p \in 1..Len(pages) |-> DepotIdOf[pages[p]]]
ShippingRaws == [p \in 1..Len(pages) |-> ShippingPointOf[pages[p]]]
\* the pages before p on which a depot id was found
ResolvedBefore(raw, p) == {q \in 1..(p - 1) : raw[q] # UNKNOWN}

\* C1: Call List, in a run not aborted inside its page loop: every page the
\* loop has processed is in exactly one group, exactly once, the group sizes
\* add up to the number of processed pages, and once the loop is over every
\* page of the document has been processed.
C1_CallListPartition ==
    (tool = CallList /\ ~AbortedInLoop) =>
        /\ \A p \in 1..page_num : Cardinality(Places(depot_writers, p)) = 1
        /\ TotalPages(depot_writers) = page_num
        /\ pc # "loop" => page_num = Len(pages)

C1_Witness ==
    /\ tool = CallList
    /\ pc = "zip"
    /\ Len(pages) >= 3
    /\ Len(depot_writers) >= 2
    /\ unknown_attached # <<>>

\* C2: Call List: distinct group keys of one run get distinct filenames, and
\* the delivered archive has one uniquely named entry per group.
C2_DistinctFilenames ==
    tool = CallList =>
        /\ \A i, j \in 1..Len(depot_writers) :
              i # j => depot_id_to_filename(depot_writers[i].key)
                         # depot_id_to_filename(depot_writers[j].key)
        /\ download # None =>
              \A i, j \in 1..Len(download[1]) :
                 i # j => download[1][i].filename # download[1][j].filename

\* C3: Call List, in a run not aborted inside its page loop:
\* an UNKNOWN page after a resolved page is in the group of the
\* nearest earlier resolved page's key and has a reattributed entry
\* (page, that key); the entries are in page order and there are no others;
\* a resolved page is in its own key's group with no diagnostic; the carried
\* key is the key of the latest resolved page, absent if there is none.
C3_AttachToPrevious ==
    (tool = CallList /\ ~AbortedInLoop) =>
        LET raw == DepotRaws
        IN  /\ \A p \in 1..page_num :
                  IF raw[p] # UNKNOWN
                  THEN /\ InGroup(depot_writers, p, raw[p])
                       /\ \A a \in 1..Len(unknown_attached) : unknown_attached[a].page # p
                       /\ \A a \in 1..Len(unknown_unassigned) : unknown_unassigned[a] # p
                  ELSE ResolvedBefore(raw, p) # {} =>
                       LET prev == raw[Max(ResolvedBefore(raw, p))]
                       IN  /\ InGroup(depot_writers, p, prev)
                           /\ \E a \in 1..Len(unknown_attached) :
                                 unknown_attached[a] = [page |-> p, assigned_to |-> prev]
            /\ \A a, b \in 1..Len(unknown_attached) :
                  a < b => unknown_attached[a].page < unknown_attached[b].page
            /\ \A a \in 1..Len(unknown_attached) :
                  LET p == unknown_attached[a].page
                  IN  /\ p \in 1..page_num
                      /\ raw[p] = UNKNOWN
                      /\ ResolvedBefore(raw, p) # {}
            /\ last_depot_id =
                  IF ResolvedBefore(raw, page_num + 1) = {} THEN None
                  ELSE Some(raw[Max(ResolvedBefore(raw, page_num + 1))])

C3_Witness ==
    /\ tool = CallList
    /\ pc = "zip"
    /\ depot_writers = <<[key |-> Key2104, pages |-> <<1, 2, 3>>],
                         [key |-> Key2200, pages |-> <<4>>]>>
    /\ unknown_attached = <<[page |-> 2, assigned_to |-> Key2104],
                            [page |-> 3, assigned_to |-> Key2104]>>
    /\ last_depot_id = Some(Key2200)

\* C4: Call List, after a page loop that was not aborted: the UNKNOWN group
\* exists iff some page comes before any resolved page; its pages are exactly
\* the unresolved diagnostics; no page at or after the first resolved page is
\* in it.
C4_UnknownGroup ==
    (tool = CallList /\ pc # "loop" /\ ~AbortedInLoop) =>
        LET raw == DepotRaws
        IN  /\ (UNKNOWN \in Keys(depot_writers))
                  <=> (\E p \in 1..Len(pages) : \A q \in 1..p : raw[q] = UNKNOWN)
            /\ IF UNKNOWN \in Keys(depot_writers)
               THEN depot_writers[IndexOf(depot_writers, UNKNOWN)].pages
                       = unknown_unassigned
               ELSE unknown_unassigned = <<>>
            /\ \A p \in 1..Len(pages) :
                  InGroup(depot_writers, p, UNKNOWN) => ResolvedBefore(raw, p + 1) = {}

C4_Witness ==
    /\ tool = CallList
    /\ pc = "done"
    /\ unknown_unassigned = <<1, 2>>
    /\ depot_writers = <<[key |-> UNKNOWN, pages |-> <<1, 2>>],
                         [key |-> Key2104, pages |-> <<3, 4>>]>>
    /\ unknown_attached = <<[page |-> 4, assigned_to |-> Key2104]>>

\* C5: Group List, in a run not aborted inside its page loop: a processed
\* page is in a group iff its own text yields a key, and then in that key's
\* group only; every UNKNOWN page is recorded as ignored and is in no group;
\* pages in groups = pages processed - ignored.
C5_DropUnmatched ==
    (tool = GroupList /\ ~AbortedInLoop) =>
        LET raw == ShippingRaws
        IN  /\ \A p \in 1..page_num :
                  IF raw[p] = UNKNOWN
                  THEN /\ Places(sp_writers, p) = {}
                       /\ \E a \in 1..Len(ignored_pages) : ignored_pages[a] = p
                  ELSE /\ Cardinality(Places(sp_writers, p)) = 1
                       /\ InGroup(sp_writers, p, raw[p])
                       /\ \A a \in 1..Len(ignored_pages) : ignored_pages[a] # p
            /\ Increasing(ignored_pages)
            /\ TotalPages(sp_writers) = page_num - Len(ignored_pages)
            /\ pc # "loop" => page_num = Len(pages)

C5_Witness ==
    /\ tool = GroupList
    /\ pc = "zip"
    /\ sp_writers = <<[key |-> Key123V, pages |-> <<1, 3>>],
                      [key |-> Key140V, pages |-> <<4>>]>>
    /\ ignored_pages = <<2>>

\* C6: Group List: when every page was read without an exception and none
\* yields a key, no archive is opened or offered and the run ends with the
\* empty-result message; an archive is opened or offered only when some group
\* holds a page.
C6_NothingToSplit ==
    tool = GroupList =>
        /\ (/\ page_num = Len(pages)
            /\ ~AbortedInLoop
            /\ \A p \in 1..Len(pages) : ShippingRaws[p] = UNKNOWN)
              => /\ zip_file = None
                 /\ download = None
                 /\ pc # "zip"
                 /\ pc = "done" => message = "nothing"
        /\ (zip_file # None \/ download # None)
              => \E i \in 1..Len(sp_writers) : sp_writers[i].pages # <<>>

C6_Witness ==
    /\ tool = GroupList
    /\ pc = "done"
    /\ message = "nothing"
    /\ Len(pages) >= 2
    /\ ignored_pages = <<1, 2>>

\* C7: both tools: after a failed serialization, or any other caught
\* exception, the run ends with the error message and nothing is offered for
\* download; what is offered holds every group's document.
C7_FailFast ==
    /\ e # None => (message = "error" /\ download = None /\ pc = "done")
    /\ message = "error" => download = None
    /\ download # None =>
          /\ message = "success"
          /\ Len(download[1]) = Len(Writers)
          /\ \A i \in 1..Len(Writers) : download[1][i].content = Writers[i].pages

C7_Witness ==
    /\ message = "error"
    /\ e = Some(RaisedInWrite)
    /\ pc = "done"
    /\ zip_file # None
    /\ Len(zip_file[1]) >= 1
    /\ Len(zip_file[1]) < Len(Writers)
    /\ download = None

\* C8: both tools, in a run not aborted inside its page loop: groups are in
\* the order of their first page, the pages of a group are in increasing page
\* order, archive entry i is group i, and a step only appends: it never
\* removes or reorders a group, a page or an entry.
IsPrefix(s, t) == Len(s) <= Len(t) /\ \A i \in 1..Len(s) : s[i] = t[i]
OrderKept ==
    ~AbortedInLoop =>
    /\ \A i, j \in 1..Len(Writers) : i < j => Writers[i].pages[1] < Writers[j].pages[1]
    /\ \A i \in 1..Len(Writers) : Increasing(Writers[i].pages)
    /\ zip_file # None =>
          \A i \in 1..Len(zip_file[1]) :
             zip_file[1][i] = [filename |-> Formatter(Writers[i].key),
                               content |-> Writers[i].pages]
AppendOnly ==
    /\ Len(Writers) <= Len(Writers')
    /\ \A i \in 1..Len(Writers) :
          /\ Writers'[i].key = Writers[i].key
          /\ IsPrefix(Writers[i].pages, Writers'[i].pages)
    /\ zip_file # None => (zip_file' # None /\ IsPrefix(zip_file[1], zip_file'[1]))
C8_OrderPreserved == [](OrderKept) /\ [][AppendOnly]_vars

C8_Witness ==
    /\ pc = "done"
    /\ download # None
    /\ Len(download[1]) = 2
    /\ download[1][1].content = <<1, 3>>
    /\ download[1][2].content = <<2, 4>>

\* ------------------------------------------------- the formatters alone
\* "2", "1", "5", "V", "a", superscript two, Arabic-Indic two
FmtAlphabet == {50, 49, 53, 86, 97, 178, 1634}
FmtKeys == SeqsUpTo(FmtAlphabet, MaxKeyLen) \cup {UNKNOWN, Key2104, Key3104, Key123V}

\* no handler is running
HandlerIdle == tool = CallList /\ pages = <<>> /\ pc = "idle" /\ HandlerStart

InitFmt ==
    /\ HandlerIdle
    /\ ExtIdle
    /\ fmt_key \in FmtKeys
    /\ fmt_out = None

\* a call depot_id_to_filename(fmt_key)
FormatDepotId ==
    /\ pc = "idle"
    /\ fmt_out = None
    /\ fmt_out' = Some([formatter |-> "depot_id_to_filename",
                        filename |-> depot_id_to_filename(fmt_key)])
    /\ UNCHANGED <<runVars, fmt_key, extVars>>

\* a call shipping_point_to_filename(fmt_key)
FormatShippingPoint ==
    /\ pc = "idle"
    /\ fmt_out = None
    /\ fmt_out' = Some([formatter |-> "shipping_point_to_filename",
                        filename |-> shipping_point_to_filename(fmt_key)])
    /\ UNCHANGED <<runVars, fmt_key, extVars>>

NextFmt == FormatDepotId \/ FormatShippingPoint

SpecFmt == InitFmt /\ [][NextFmt]_vars

\* C9: depot_id_to_filename returns the key followed by _CL.pdf when the key is
\* UNKNOWN, has a character that is not a digit, or is shorter than 2;
\* otherwise the key without its first character, then V, then _CL.pdf.
\* (a digit is a character for which str.isdigit() holds)
OnlyDigits(key) == {k \in 1..Len(key) : ~IsDigitChar(key[k])} = {}
\* "_CL.pdf", "V_CL.pdf", "104V_CL.pdf", "UNKNOWN_CL.pdf", "5", "5_CL.pdf"
NameCL == <<95, 67, 76, 46, 112, 100, 102>>
NameVCL == <<86, 95, 67, 76, 46, 112, 100, 102>>
Name104V == <<49, 48, 52, 86, 95, 67, 76, 46, 112, 100, 102>>
NameUnknown == <<85, 78, 75, 78, 79, 87, 78, 95, 67, 76, 46, 112, 100, 102>>
Key5 == <<53>>
Name5 == <<53, 95, 67, 76, 46, 112, 100, 102>>
C9_DepotFilenameRule ==
    (fmt_out # None /\ fmt_out[1].formatter = "depot_id_to_filename") =>
        LET name == fmt_out[1].filename
        IN  /\ IF fmt_key = UNKNOWN \/ ~OnlyDigits(fmt_key) \/ Len(fmt_key) < 2
               THEN name = fmt_key \o NameCL
               ELSE name = Tail(fmt_key) \o NameVCL
            /\ fmt_key = Key2104 => name = Name104V
            /\ fmt_key = UNKNOWN => name = NameUnknown
            /\ fmt_key = Key5 => name = Name5

C9_Witness ==
    /\ fmt_key = Key5
    /\ fmt_out = Some([formatter |-> "depot_id_to_filename", filename |-> Name5])

\* ------------------------------------------------- the extractors alone
\* "2104"
FragDigits == <<50, 49, 48, 52>>
\* "342200"
FragGlued == <<51, 52, 50, 50, 48, 48>>
\* vertical tab "\n"
FragNL == <<11, 10>>
\* " :" no-break space
FragColon == <<32, 58, 160>>
\* "123V"
FragSP == <<49, 50, 51, 86>>
\* "12V"
FragSPShort == <<49, 50, 86>>
\* Arabic-Indic "2104"
FragArabic == <<1634, 1633, 1632, 1636>>
Fragments == {LabelDepot, LabelShipping, FragDigits, FragGlued, FragNL, FragColon,
              FragSP, FragSPShort, FragArabic}

RECURSIVE Concat(_)
Concat(frags) == IF frags = <<>> THEN <<>> ELSE Head(frags) \o Concat(Tail(frags))

\* page texts: at most MaxFrags fragments, one after the other
ExtTexts == {Concat(frags) : frags \in SeqsUpTo(Fragments, MaxFrags)}

\* the positions of text inside an occurrence of label written in any case
LabelPositions(text, label) ==
    LET starts == {j \in 1..Len(text) : MatchLiteral(text, j, label, TRUE)}
    IN  UNION {j..(j + Len(label) - 1) : j \in starts}

\* text with every occurrence of label in upper or in lower case
Recase(text, label, upper) ==
    LET positions == LabelPositions(text, label)
    IN  [r \in 1..Len(text) |->
            IF r \in positions
            THEN IF upper THEN ToUpper(text[r]) ELSE ToLower(text[r])
            ELSE text[r]]

\* text with v for every V
LowerV(text) == [r \in 1..Len(text) |-> IF text[r] = CharV THEN CharLowerV ELSE text[r]]

Changes == {"none", "depot label upper", "depot label lower",
            "shipping label upper", "shipping label lower", "token v"}
Changed(text, change) ==
    CASE change = "none" -> text
      [] change = "depot label upper" -> Recase(text, LabelDepot, TRUE)
      [] change = "depot label lower" -> Recase(text, LabelDepot, FALSE)
      [] change = "shipping label upper" -> Recase(text, LabelShipping, TRUE)
      [] change = "shipping label lower" -> Recase(text, LabelShipping, FALSE)
      [] change = "token v" -> LowerV(text)

\* a page text and the same text with one change of letter case
InitExt ==
    /\ HandlerIdle
    /\ FmtIdle
    /\ ext_base \in ExtTexts
    /\ ext_change \in Changes
    /\ ext_text = Changed(ext_base, ext_change)
    /\ ext_change # "none" => ext_text # ext_base
    /\ ext_depot = None
    /\ ext_sp = None

\* a call extract_depot_id_from_text(ext_text)
ExtractDepotId ==
    /\ pc = "idle"
    /\ ext_depot = None
    /\ ext_depot' = Some(extract_depot_id_from_text(ext_text))
    /\ UNCHANGED <<runVars, fmtVars, ext_base, ext_text, ext_change, ext_sp>>

\* a call extract_shipping_point_from_text(ext_text)
ExtractShippingPoint ==
    /\ pc = "idle"
    /\ ext_sp = None
    /\ ext_sp' = Some(extract_shipping_point_from_text(ext_text))
    /\ UNCHANGED <<runVars, fmtVars, ext_base, ext_text, ext_change, ext_depot>>

NextExt == ExtractDepotId \/ ExtractShippingPoint

SpecExt == InitExt /\ [][NextExt]_vars

\* what the two extractors return on each unchanged text
BaseDepotId == [text \in ExtTexts |-> extract_depot_id_from_text(text)]
BaseShippingPoint == [text \in ExtTexts |-> extract_shipping_point_from_text(text)]

DepotLabelChanged == ext_change \in {"depot label upper", "depot label lower"}
ShippingLabelChanged == ext_change \in {"shipping label upper", "shipping label lower"}

\* C10 as stated: changing only the letter case of the label changes neither
\* extractor's key, and v for V in the token makes the Shipping Point
\* extractor return UNKNOWN.
C10_BothLabelsAnyCase ==
    /\ (DepotLabelChanged /\ ext_depot # None)
          => ext_depot[1] = BaseDepotId[ext_base]
    /\ (ShippingLabelChanged /\ ext_sp # None)
          => ext_sp[1] = BaseShippingPoint[ext_base]
    /\ (ext_change = "token v" /\ ext_sp # None) => ext_sp[1] = UNKNOWN

\* C10 as amended: changing only the letter case of 'Depot ID' does not change
\* the Depot extractor's key; the Shipping Point extractor returns UNKNOWN
\* when the label is written in another case than 'Shipping Point', and when
\* the token has v for V.
C10_DepotLabelAnyCase ==
    /\ (DepotLabelChanged /\ ext_depot # None)
          => ext_depot[1] = BaseDepotId[ext_base]
    /\ (ShippingLabelChanged /\ ext_sp # None) => ext_sp[1] = UNKNOWN
    /\ (ext_change = "token v" /\ ext_sp # None) => ext_sp[1] = UNKNOWN

C10_Witness ==
    /\ ext_change = "depot label lower"
    /\ ext_base = FragDigits \o FragNL \o LabelDepot
    /\ ext_text # ext_base
    /\ ext_depot = Some(Key2104)

====
